---- MODULE Spec2Model ----
(***************************************************************************)
(* Model of the text pipeline of app.py (LaTeX text -> notebook cells) and  *)
(* of app_dollar.py (LaTeX math delimiters -> $...$ / $$...$$).             *)
(* A text is a sequence of one-character strings; every regular expression  *)
(* of the source is modelled by the matcher it denotes.                     *)
(***************************************************************************)
EXTENDS Integers, Sequences, FiniteSets, TLC

VARIABLES input, text, sections, notebook, count, pc

vars == <<input, text, sections, notebook, count, pc>>

(***************************************************************************)
(* Characters and basic text operations (Python str / re primitives).       *)
(***************************************************************************)
BS == "\\"
NL == "\n"

\* characters matched by \s and removed by str.strip()
Whitespace == {" ", "\n", "\t"}

LowerLetters == <<"a", "b", "c", "d", "e", "f", "g", "h", "i", "j", "k", "l", "m",
                  "n", "o", "p", "q", "r", "s", "t", "u", "v", "w", "x", "y", "z">>
UpperLetters == <<"A", "B", "C", "D", "E", "F", "G", "H", "I", "J", "K", "L", "M",
                  "N", "O", "P", "Q", "R", "S", "T", "U", "V", "W", "X", "Y", "Z">>
Digits == <<"0", "1", "2", "3", "4", "5", "6", "7", "8", "9">>

Range(f) == {f[k] : k \in DOMAIN f}

LowerSet == Range(LowerLetters)
DigitSet == Range(Digits)

\* characters matched by \w (the complement decides \b)
WordChars == LowerSet \cup Range(UpperLetters) \cup DigitSet \cup {"_"}

\* str.upper() on one character
upper_char(c) ==
    IF c \in LowerSet
    THEN UpperLetters[CHOOSE k \in DOMAIN LowerLetters : LowerLetters[k] = c]
    ELSE c

\* str.upper()
upper(s) == [k \in DOMAIN s |-> upper_char(s[k])]

\* the least element of a non-empty set of integers
Least(S) == CHOOSE j \in S : \A k \in S : j <= k

\* the literal p occurs in s at index i
StartsAt(s, i, p) ==
    /\ i >= 1
    /\ i + Len(p) - 1 <= Len(s)
    /\ \A k \in 1..Len(p) : s[i + k - 1] = p[k]

\* str.find(p, i): least index >= i where the literal p occurs in s, 0 if none
Find(s, p, i) ==
    LET found == {j \in i..(Len(s) - Len(p) + 1) : StartsAt(s, j, p)} IN
    IF found = {} THEN 0 ELSE Least(found)

\* s[i..j] holds a newline (a character the regex dot does not match)
HasNewline(s, i, j) == \E k \in i..j : k \in DOMAIN s /\ s[k] = NL

\* re.sub / str.replace of a literal: leftmost non-overlapping occurrences
RECURSIVE replace_from(_, _, _, _)
replace_from(s, old, new, i) ==
    LET j == Find(s, old, i) IN
    IF j = 0 THEN SubSeq(s, i, Len(s))
    ELSE SubSeq(s, i, j - 1) \o new \o replace_from(s, old, new, j + Len(old))

replace(s, old, new) == replace_from(s, old, new, 1)

\* str.strip()
lstrip(s) ==
    LET kept == {k \in 1..Len(s) : s[k] \notin Whitespace} IN
    IF kept = {} THEN <<>> ELSE SubSeq(s, Least(kept), Len(s))

rstrip(s) ==
    LET kept == {k \in 1..Len(s) : s[k] \notin Whitespace} IN
    IF kept = {} THEN <<>> ELSE SubSeq(s, 1, CHOOSE j \in kept : \A k \in kept : k <= j)

strip(s) == rstrip(lstrip(s))

\* str(i) for a natural number
RECURSIVE str(_)
str(n) == IF n < 10 THEN <<Digits[n + 1]>> ELSE str(n \div 10) \o <<Digits[(n % 10) + 1]>>

EndDocument == <<"\\", "e", "n", "d", "{", "d", "o", "c", "u", "m", "e", "n", "t", "}">>

\* re.sub(r'\\end{document}.*', '', s, flags=re.DOTALL)
remove_end_document(s) ==
    LET j == Find(s, EndDocument, 1) IN
    IF j = 0 THEN s ELSE SubSeq(s, 1, j - 1)

(***************************************************************************)
(* Regular expressions and replacement templates, as re reads them.          *)
(* A pattern or template is kept as the characters of the raw string of the  *)
(* source: r"\\frac" is the six characters \ \ f r a c.                      *)
(***************************************************************************)
\* A pattern without groups as a list of atoms: "\c" is the character c, a
\* character followed by "*" is repeated zero or more times.
RECURSIVE compile(_)
compile(src) ==
    IF src = <<>> THEN <<>>
    ELSE LET n == IF Head(src) = BS /\ Len(src) >= 2 THEN 2 ELSE 1
             star == Len(src) > n /\ src[n + 1] = "*"
         IN <<[ch |-> src[n], star |-> star]>>
            \o compile(SubSeq(src, n + 1 + (IF star THEN 1 ELSE 0), Len(src)))

\* the text a pattern of plain and escaped characters matches
literal(src) == LET atoms == compile(src) IN [k \in DOMAIN atoms |-> atoms[k].ch]

\* the length of the run of the character c of s that starts at index i
run_length(s, i, c) ==
    LET other == {k \in i..Len(s) : s[k] # c} IN
    IF other = {} THEN Len(s) + 1 - i ELSE Least(other) - i

\* re.match of atoms[k..] at index i of s: the index after the match, 0 if none
\* (a repetition is greedy and gives characters back when the rest fails)
RECURSIVE match_atoms(_, _, _, _)
match_atoms(s, i, atoms, k) ==
    IF k > Len(atoms) THEN i
    ELSE IF atoms[k].star
    THEN LET ok == {m \in 0..run_length(s, i, atoms[k].ch) :
                        match_atoms(s, i + m, atoms, k + 1) # 0}
         IN IF ok = {} THEN 0
            ELSE match_atoms(s, i + (CHOOSE m \in ok : \A x \in ok : x <= m), atoms, k + 1)
    ELSE IF i <= Len(s) /\ s[i] = atoms[k].ch THEN match_atoms(s, i + 1, atoms, k + 1)
    ELSE 0

\* A replacement template without group references: "\\" is one backslash and a
\* backslash before any other punctuation character stays, with that character.
RECURSIVE expand_template(_)
expand_template(t) ==
    IF t = <<>> THEN <<>>
    ELSE IF Head(t) = BS /\ Len(t) >= 2
    THEN IF t[2] = BS THEN <<BS>> \o expand_template(SubSeq(t, 3, Len(t)))
         ELSE <<BS, t[2]>> \o expand_template(SubSeq(t, 3, Len(t)))
    ELSE <<Head(t)>> \o expand_template(Tail(t))

\* re.sub(old, new, s) for a pattern of plain and escaped characters
re_sub(old, new, s) == replace(s, literal(old), expand_template(new))

(***************************************************************************)
(* transform_latex_equations                                                *)
(***************************************************************************)
DisplayOpen == <<BS, "[">>
DisplayClose == <<BS, "]">>

\* the least index >= i of s that holds no whitespace (Len(s) + 1 if none)
skip_whitespace(s, i) ==
    LET other == {k \in i..Len(s) : s[k] \notin Whitespace} IN
    IF other = {} THEN Len(s) + 1 ELSE Least(other)

\* re.sub(r'\s+', ' ', s): every run of whitespace becomes one space
collapse_whitespace(s) ==
    LET kept == {k \in 1..Len(s) : s[k] \notin Whitespace \/ k = 1 \/ s[k - 1] \notin Whitespace}
        nth(j) == CHOOSE k \in kept : Cardinality({x \in kept : x < k}) = j - 1
    IN [j \in 1..Cardinality(kept) |->
            IF s[nth(j)] \in Whitespace THEN " " ELSE s[nth(j)]]

\* lines 47-50: the replacement of one segment, equation its group
replace_equation(equation) ==
    DisplayOpen \o <<" ">> \o strip(collapse_whitespace(equation)) \o <<" ">> \o DisplayClose

\* line 51: re.sub(r'\\\[\s*(.*?)\s*\\\]', replace_equation, s, flags=re.DOTALL)
\* from index i on: a segment runs to the first \] and its group is its body
\* without the whitespace around it
RECURSIVE transform_from(_, _)
transform_from(s, i) ==
    LET o == Find(s, DisplayOpen, i) IN
    IF o = 0 THEN SubSeq(s, i, Len(s))
    ELSE LET p == skip_whitespace(s, o + 2)
             c == Find(s, DisplayClose, p)
         IN IF c = 0 THEN SubSeq(s, i, Len(s))
            ELSE SubSeq(s, i, o - 1) \o replace_equation(rstrip(SubSeq(s, p, c - 1)))
                 \o transform_from(s, c + 2)

\* lines 45-51
transform_latex_equations(t) == transform_from(t, 1)

(***************************************************************************)
(* perform_substitutions                                                    *)
(***************************************************************************)
newline == <<"n", "e", "w", "l", "i", "n", "e">>
frac == <<"f", "r", "a", "c">>
right == <<"r", "i", "g", "h", "t">>
rfloor == <<"r", "f", "l", "o", "o", "r">>
begin == <<"b", "e", "g", "i", "n">>
theta == <<"t", "h", "e", "t", "a">>

\* the same pairs with the line-break pair after the macro pairs
substitutions_line_break_last ==
    << <<<<BS, BS>> \o frac, <<BS, BS, BS, BS>> \o frac>>,
       <<<<BS, BS>> \o right, <<BS, BS, BS, BS>> \o right>>,
       <<<<BS, BS>> \o rfloor, <<BS, BS, BS, BS>> \o rfloor>>,
       <<<<BS, BS>> \o begin, <<BS, BS, BS, BS>> \o begin>>,
       <<<<BS, BS>> \o theta, <<BS, BS, BS, BS>> \o theta>>,
       <<<<BS, BS, BS, BS>>, <<BS, BS>> \o newline>>,
       <<<<BS, BS, "_">>, <<"_">>>> >>

\* lines 145-153: the list of (old, new) raw strings
substitutions ==
    << <<<<BS, BS, BS, BS>>, <<BS, BS>> \o newline>>,
       <<<<BS, BS>> \o frac, <<BS, BS, BS, BS>> \o frac>>,
       <<<<BS, BS>> \o right, <<BS, BS, BS, BS>> \o right>>,
       <<<<BS, BS>> \o rfloor, <<BS, BS, BS, BS>> \o rfloor>>,
       <<<<BS, BS>> \o begin, <<BS, BS, BS, BS>> \o begin>>,
       <<<<BS, BS>> \o theta, <<BS, BS, BS, BS>> \o theta>>,
       <<<<BS, BS, "_">>, <<"_">>>> >>

\* lines 155-156: the loop over the pairs from the k-th on
RECURSIVE apply_substitutions(_, _, _)
apply_substitutions(subs, k, output_text) ==
    IF k > Len(subs) THEN output_text
    ELSE apply_substitutions(subs, k + 1, re_sub(subs[k][1], subs[k][2], output_text))

perform_substitutions(input_text) == apply_substitutions(substitutions, 1, input_text)

(***************************************************************************)
(* parse_input_to_notebook                                                  *)
(***************************************************************************)
MetadataText == <<"#", " ", "M", "e", "t", "a", "d", "a", "t", "a", "\n", "\n", "*", "*", "T", "o", "p", "i", "c", ":", "*", "*", " ", "-", " ", "M", "a", "t", "h", "e", "m", "a", "t", "i", "c", "s", "\n", "\n", "*", "*", "S", "u", "b", "t", "o", "p", "i", "c", ":", "*", "*", " ", "-", " ", "\n", "\n", "*", "*", "D", "i", "f", "f", "i", "c", "u", "l", "t", "y", ":", "*", "*", " ", "-", " ", "\n", "\n", "*", "*", "E", "x", "p", "l", "a", "n", "a", "t", "i", "o", "n", ":", "*", "*", " ", "-", " ", " ", "\n", "\n", "*", "*", "S", "e", "c", "t", "i", "o", "n", "s", ":", "*", "*", " ", "-", " ", "\n", "\n", "*", "*", "P", "r", "o", "m", "p", "t", ":", "*", "*", " ", "-", " ", "\t", "\n">>
MetadataId == <<"m", "e", "t", "a", "d", "a", "t", "a", "_", "c", "e", "l", "l">>
FinalSeparatorId == <<"f", "i", "n", "a", "l", "_", "s", "e", "p", "a", "r", "a", "t", "o", "r">>
SeparatorBeforePrefix == <<"s", "e", "p", "a", "r", "a", "t", "o", "r", "_", "b", "e", "f", "o", "r", "e", "_">>
SeparatorPrefix == <<"s", "e", "p", "a", "r", "a", "t", "o", "r", "_">>
SectionPrefix == <<"s", "e", "c", "t", "i", "o", "n", "_">>
Rule == <<"-", "-", "-">>
Bold == <<"*", "*">>

\* the literal heads of the two marker patterns and their common tail "]}"
SectionOpen == <<"\\", "s", "e", "c", "t", "i", "o", "n", "*", "{", "[">>
AtomicOpen == <<"\\", "s", "e", "c", "t", "i", "o", "n", "*", "{", "[", "a", "t", "o", "m", "i", "c", "_">>
SectionOnlyOpen == <<"\\", "s", "e", "c", "t", "i", "o", "n", "*", "{", "[", "S", "E", "C", "T", "I", "O", "N", "_">>
LabelClose == <<"]", "}">>

\* seq[i] with Python's 0-based index
At(seq, i) == seq[i + 1]

Cell(source_text, id) == [cell_type |-> "markdown", source |-> <<source_text>>, id |-> id]

\* A match of  <open> .*? \] }  starting at index i of s: the index of its last
\* character, 0 when there is none. The dot does not match a newline.
match_marker(s, i, open) ==
    IF ~StartsAt(s, i, open) THEN 0
    ELSE LET j == Find(s, LabelClose, i + Len(open)) IN
         IF j = 0 \/ HasNewline(s, i + Len(open), j - 1) THEN 0 ELSE j + 1

\* re.split(pattern, s) for a marker pattern with one capture group (the label,
\* from "[" to "]"): the pieces between the matches with each label in between.
\* start is where the current piece begins, i where the scan for a match goes on.
RECURSIVE re_split_from(_, _, _, _)
re_split_from(s, open, start, i) ==
    LET o == Find(s, open, i) IN
    IF o = 0 THEN <<SubSeq(s, start, Len(s))>>
    ELSE LET e == match_marker(s, o, open) IN
         IF e = 0 THEN re_split_from(s, open, start, o + 1)
         ELSE <<SubSeq(s, start, o - 1), SubSeq(s, o + Len(SectionOpen) - 1, e - 1)>>
              \o re_split_from(s, open, e + 1, e + 1)

\* a split that drops a trailing empty piece
re_split_dropping_trailing_empty(s, open) ==
    LET parts == re_split_from(s, open, 1, 1) IN
    IF parts[Len(parts)] = <<>> THEN SubSeq(parts, 1, Len(parts) - 1) ELSE parts

re_split(s, open) == re_split_from(s, open, 1, 1)

\* a section pattern that takes [SECTION_...] labels only
section_pattern_only_numbered == SectionOnlyOpen

\* line 71: the head of r"\\section\*{(\[.*?\])}"
section_pattern == SectionOpen

\* line 107: the head of r"\\section\*{(\[atomic_.*?])}"
atomic_pattern == AtomicOpen

\* the number of characters of the run of digits of s that starts at index i
digits_at(s, i) ==
    LET other == {k \in i..Len(s) : s[k] \notin DigitSet} IN
    IF other = {} THEN Len(s) + 1 - i ELSE Least(other) - i

SECTION_ == <<"[", "S", "E", "C", "T", "I", "O", "N", "_">>
PROMPT == <<"P", "R", "O", "M", "P", "T">>
RESPONSE == <<"R", "E", "S", "P", "O", "N", "S", "E">>

\* re.search(r'\[SECTION_\d+\]', s), scanning from index i
RECURSIVE search_section_from(_, _)
search_section_from(s, i) ==
    LET o == Find(s, SECTION_, i) IN
    IF o = 0 THEN FALSE
    ELSE LET d == digits_at(s, o + Len(SECTION_)) IN
         IF d >= 1 /\ StartsAt(s, o + Len(SECTION_) + d, <<"]">>) THEN TRUE
         ELSE search_section_from(s, o + 1)

search_section(s) == search_section_from(s, 1)

\* the word w stands in s at index i between two \b boundaries
word_at(s, i, w) ==
    /\ StartsAt(s, i, w)
    /\ (i = 1 \/ s[i - 1] \notin WordChars)
    /\ (i + Len(w) > Len(s) \/ s[i + Len(w)] \notin WordChars)

\* re.search(r'\b(PROMPT|RESPONSE)\b', s)
search_prompt_response(s) ==
    \E i \in 1..Len(s) : word_at(s, i, PROMPT) \/ word_at(s, i, RESPONSE)

\* the dividers decided on the label as written, not upper-cased
separator_cells_case_sensitive(section_title, i) ==
    IF search_section(section_title)
    THEN <<Cell(Rule, SeparatorBeforePrefix \o section_title)>>
    ELSE IF search_prompt_response(section_title)
    THEN <<Cell(Rule, SeparatorPrefix \o str(i))>>
    ELSE <<>>

\* lines 77-91: the divider cells put before the section cell of pair i
separator_cells(section_title, i) ==
    IF search_section(upper(section_title))
    THEN <<Cell(Rule, SeparatorBeforePrefix \o section_title)>>
    ELSE IF search_prompt_response(upper(section_title))
    THEN <<Cell(Rule, SeparatorPrefix \o str(i))>>
    ELSE <<>>

\* line 113: re.sub(r'\\\[\s*(.*?)\s*\\\]', r'\\[\n\1\n\\]', s) without DOTALL: a
\* segment matches when its body, trimmed, holds no newline.
RECURSIVE rewrap_display_from(_, _)
rewrap_display_from(s, i) ==
    LET o == Find(s, DisplayOpen, i) IN
    IF o = 0 THEN SubSeq(s, i, Len(s))
    ELSE LET p == skip_whitespace(s, o + 2)
             c == Find(s, DisplayClose, p)
             body == rstrip(SubSeq(s, p, c - 1))
         IN IF c = 0 THEN SubSeq(s, i, Len(s))
            ELSE IF HasNewline(body, 1, Len(body))
            THEN SubSeq(s, i, o) \o rewrap_display_from(s, o + 1)
            ELSE SubSeq(s, i, o - 1) \o DisplayOpen \o <<NL>> \o body \o <<NL>>
                 \o DisplayClose \o rewrap_display_from(s, c + 2)

rewrap_display(s) == rewrap_display_from(s, 1)

\* line 114: atomic_content.replace("\n", "  \n")
hard_line_breaks(s) == replace(s, <<NL>>, <<" ", " ", NL>>)

\* lines 109-120: the cells of the atomic pairs from index j on; error is the
\* IndexError of atomic_parts[j + 1] past the end of the list
RECURSIVE atomic_cells(_, _, _)
atomic_cells(atomic_parts, i, j) ==
    IF j >= Len(atomic_parts) THEN [cells |-> <<>>, error |-> FALSE]
    ELSE IF j + 1 >= Len(atomic_parts) THEN [cells |-> <<>>, error |-> TRUE]
    ELSE LET atomic_title == At(atomic_parts, j)
             atomic_content ==
                 hard_line_breaks(rewrap_display(remove_end_document(
                     strip(At(atomic_parts, j + 1)))))
             rest == atomic_cells(atomic_parts, i, j + 2)
         IN [cells |-> <<Cell(Bold \o atomic_title \o Bold \o <<NL, NL>> \o atomic_content,
                              atomic_title \o <<"_">> \o str(i) \o <<"_">> \o str(j))>>
                       \o rest.cells,
             error |-> rest.error]

\* lines 72-120: the cells of the section pairs from index i on
RECURSIVE section_cells(_, _)
section_cells(secs, i) ==
    IF i >= Len(secs) THEN [cells |-> <<>>, error |-> FALSE]
    ELSE IF i + 1 >= Len(secs) THEN [cells |-> <<>>, error |-> TRUE]
    ELSE LET section_title == At(secs, i)
             stripped == strip(At(secs, i + 1))
             truncated == remove_end_document(stripped)
             section_content ==
                 IF Find(upper(section_title), RESPONSE, 1) # 0
                 THEN remove_end_document(truncated) ELSE truncated
             atomic_parts == re_split(section_content, atomic_pattern)
             atomic == IF Len(atomic_parts) > 1 THEN atomic_cells(atomic_parts, i, 1)
                       ELSE [cells |-> <<>>, error |-> FALSE]
             rest == IF atomic.error THEN [cells |-> <<>>, error |-> TRUE]
                     ELSE section_cells(secs, i + 2)
         IN [cells |-> separator_cells(section_title, i)
                       \o <<Cell(Bold \o section_title \o Bold \o <<NL, NL>> \o section_content,
                                 SectionPrefix \o str(i))>>
                       \o atomic.cells \o rest.cells,
             error |-> rest.error]

\* lines 69-71: the list the section loop runs over
split_sections(t) == re_split(remove_end_document(t), section_pattern)

\* lines 54-127: the cells as assembled, before the final cleanup
assemble_cells(t) ==
    LET body == section_cells(split_sections(t), 1) IN
    [cells |-> <<Cell(MetadataText, MetadataId)>> \o body.cells
               \o <<Cell(Rule, FinalSeparatorId)>>,
     error |-> body.error]

\* the cleanup with the two arguments of replace exchanged
cleanup_text_arguments_swapped(t) == remove_end_document(replace(t, <<BS>>, <<BS, BS>>))

\* lines 136-138: the cleanup of one source text
cleanup_text(t) == remove_end_document(replace(t, <<BS, BS>>, <<BS>>))

\* lines 130-140: the final cleanup of all cells
cleanup_cells(cells) ==
    [k \in DOMAIN cells |->
        [cells[k] EXCEPT !.source = [n \in DOMAIN cells[k].source |->
                                        cleanup_text(cells[k].source[n])]]]

\* the notebook returned; error: the call raised instead (no notebook)
parse_input_to_notebook(t) ==
    LET assembled == assemble_cells(t) IN
    IF assembled.error THEN [cells |-> <<>>, error |-> TRUE]
    ELSE [cells |-> cleanup_cells(assembled.cells), error |-> FALSE]

(***************************************************************************)
(* escape_latex_delimiters_in_notebook                                      *)
(***************************************************************************)
\* the pairs with templates that write each delimiter back as it was
delimiter_subs_unchanged ==
    << <<<<BS, BS, BS, "(">>, <<BS, "(">>>>,
       <<<<BS, BS, BS, ")">>, <<BS, ")">>>>,
       <<<<BS, BS, BS, "[">>, <<BS, "[">>>>,
       <<<<BS, BS, BS, "]">>, <<BS, "]">>>> >>

\* lines 160-165: the list of (old, new) raw strings
delimiter_subs ==
    << <<<<BS, BS, BS, "(">>, <<BS, BS, BS, "(">>>>,
       <<<<BS, BS, BS, ")">>, <<BS, BS, BS, ")">>>>,
       <<<<BS, BS, BS, "[">>, <<BS, BS, BS, "[">>>>,
       <<<<BS, BS, BS, "]">>, <<BS, BS, BS, "]">>>> >>

\* lines 166-173
escape_latex_delimiters_in_notebook(nb) ==
    [nb EXCEPT !.cells =
        [k \in DOMAIN nb.cells |->
            [nb.cells[k] EXCEPT !.source =
                [n \in DOMAIN nb.cells[k].source |->
                    apply_substitutions(delimiter_subs, 1, nb.cells[k].source[n])]]]]

(***************************************************************************)
(* convert_latex_delimiters (app_dollar.py)                                 *)
(***************************************************************************)
\* re.search from index i: the least index j >= i of s at which atoms match, 0 if none
search_atoms(s, i, atoms) ==
    LET found == {j \in i..Len(s) : match_atoms(s, j, atoms, 1) # 0} IN
    IF found = {} THEN 0 ELSE Least(found)

\* re.subn(<open>(<body>*?)<close>, delim \1 delim, s) from index i on, where the
\* body is (?:.|\n) when dotall and . (no newline) otherwise
RECURSIVE subn_from(_, _, _, _, _, _)
subn_from(s, i, open, close, dotall, delim) ==
    LET o == search_atoms(s, i, open) IN
    IF o = 0 THEN [text |-> SubSeq(s, i, Len(s)), count |-> 0]
    ELSE LET a == match_atoms(s, o, open, 1)
             c == search_atoms(s, a, close)
             matched == c # 0 /\ (dotall \/ ~HasNewline(s, a, c - 1))
             rest == subn_from(s, IF matched THEN match_atoms(s, c, close, 1) ELSE o + 1,
                               open, close, dotall, delim)
         IN IF matched
            THEN [text |-> SubSeq(s, i, o - 1) \o delim \o SubSeq(s, a, c - 1) \o delim
                           \o rest.text,
                  count |-> 1 + rest.count]
            ELSE [text |-> SubSeq(s, i, o) \o rest.text, count |-> rest.count]

equation == <<"e", "q", "u", "a", "t", "i", "o", "n">>
align == <<"a", "l", "i", "g", "n">>
gather == <<"g", "a", "t", "h", "e", "r">>
multline == <<"m", "u", "l", "t", "l", "i", "n", "e">>

\* lines 32-37
display_envs ==
    <<equation \o <<"*">>, equation, align \o <<"*">>, align,
      gather \o <<"*">>, gather, multline \o <<"*">>, multline>>

\* line 40: the raw text rf'\\begin\{{{env}\}}' with env put in as it is
env_begin(env) == <<BS, BS>> \o begin \o <<BS, "{">> \o env \o <<BS, "}">>

\* line 40: the raw text rf'\\end\{{{env}\}}'
env_end(env) == <<BS, BS, "e", "n", "d", BS, "{">> \o env \o <<BS, "}">>

ensuremath == <<"e", "n", "s", "u", "r", "e", "m", "a", "t", "h">>

\* lines 29-48: the calls of convert_and_count in order, each with the raw text
\* of the pattern before and after its group, and the delimiter of its template
passes ==
    <<[open |-> <<BS, BS, BS, "[">>, close |-> <<BS, BS, BS, "]">>,
       dotall |-> TRUE, delim |-> <<"$", "$">>]>>
    \o [k \in 1..Len(display_envs) |->
        [open |-> env_begin(display_envs[k]), close |-> env_end(display_envs[k]),
         dotall |-> TRUE, delim |-> <<"$", "$">>]]
    \o <<[open |-> <<BS, BS, BS, "(">>, close |-> <<BS, BS, BS, ")">>,
          dotall |-> FALSE, delim |-> <<"$">>],
         [open |-> <<BS, BS>> \o ensuremath \o <<BS, "{">>, close |-> <<BS, "}">>,
          dotall |-> FALSE, delim |-> <<"$">>]>>

\* a counter of the passes that matched, not of the matches
count_passes(r, current_text, conversion_count) ==
    [text |-> r.text, count |-> conversion_count + (IF r.count > 0 THEN 1 ELSE 0)]

\* lines 19-25: convert_and_count, r the result of re.subn on current_text
convert_and_count(r, current_text, conversion_count) ==
    IF r.count > 0 THEN [text |-> r.text, count |-> conversion_count + r.count]
    ELSE [text |-> current_text, count |-> conversion_count]

\* the passes from the k-th on
RECURSIVE run_passes(_, _, _, _)
run_passes(ps, k, current_text, conversion_count) ==
    IF k > Len(ps) THEN [text |-> current_text, count |-> conversion_count]
    ELSE LET r == subn_from(current_text, 1, compile(ps[k].open), compile(ps[k].close),
                            ps[k].dotall, ps[k].delim)
             next == convert_and_count(r, current_text, conversion_count)
         IN run_passes(ps, k + 1, next.text, next.count)

\* lines 15-50
convert_latex_delimiters(t) == run_passes(passes, 1, t, 0)

(***************************************************************************)
(* Inputs: the texts made of at most a bounded number of fragments, and the  *)
(* documented examples.                                                      *)
(***************************************************************************)
MaxFragments == 3
MaxBackslashFragments == 4
MaxMacroFragments == 3
MaxDelimiterFragments == 3
MaxMathFragments == 2

RECURSIVE TextsOf(_, _)
TextsOf(fragments, n) ==
    IF n = 0 THEN {<<>>}
    ELSE LET shorter == TextsOf(fragments, n - 1)
         IN shorter \cup {t \o f : t \in shorter, f \in fragments}

NumberedMarker == SectionOpen \o <<"S", "E", "C", "T", "I", "O", "N", "_", "0", "1", "]", "}">>
AtomicMarker == AtomicOpen \o <<"a", "]", "}">>
PromptMarker == SectionOpen \o <<"P", "r", "o", "m", "p", "t", "]", "}">>
NoteMarker == SectionOpen \o <<"n", "o", "t", "e", "]", "}">>

StructureFragments ==
    {NumberedMarker, AtomicMarker, PromptMarker, SectionOpen, <<"a">>, <<NL>>, <<BS>>,
     EndDocument}

\* "\section*{[SECTION_01]}\nHello\n\section*{[atomic_a]}\nfoo\nbar\n\end{document}"
ExampleDocument ==
    NumberedMarker \o <<NL, "H", "e", "l", "l", "o", NL>> \o AtomicMarker
    \o <<NL, "f", "o", "o", NL, "b", "a", "r", NL>> \o EndDocument

StructureInputs == TextsOf(StructureFragments, MaxFragments) \cup {ExampleDocument}

\* a section whose content is made of backslashes and other text
BackslashFragments == {<<BS>>, <<"a">>, <<NL>>, EndDocument}

BackslashInputs ==
    {NoteMarker \o t : t \in TextsOf(BackslashFragments, MaxBackslashFragments)}

MacroFragments ==
    {<<BS>>, frac, right, rfloor, begin, theta, <<"_">>, <<"x">>}

\* "\frac{1}{2} \\ \theta"
ExampleMacros ==
    <<BS>> \o frac \o <<"{", "1", "}", "{", "2", "}", " ", BS, BS, " ", BS>> \o theta

MacroInputs == TextsOf(MacroFragments, MaxMacroFragments) \cup {ExampleMacros}

DelimiterFragments ==
    {<<BS, "(">>, <<BS, ")">>, <<BS, "[">>, <<BS, "]">>, <<BS>>, <<"x">>}

DelimiterInputs == {NoteMarker \o t : t \in TextsOf(DelimiterFragments, MaxDelimiterFragments)}

\* \begin{env} X \end{env}
Environment(env) ==
    <<BS>> \o begin \o <<"{">> \o env \o <<"}", " ", "X", " ", BS, "e", "n", "d", "{">>
    \o env \o <<"}">>

MathFragments ==
    {Environment(display_envs[k]) : k \in DOMAIN display_envs}
    \cup {<<BS, "[">>, <<BS, "]">>, <<BS, "(">>, <<BS, ")">>, <<"x">>, <<NL>>,
          <<BS>> \o ensuremath \o <<"{", "z", "}">>}

\* "Text \[ x+y \] more \(a\) end"
ExampleMath ==
    <<"T", "e", "x", "t", " ", BS, "[", " ", "x", "+", "y", " ", BS, "]", " ",
      "m", "o", "r", "e", " ", BS, "(", "a", BS, ")", " ", "e", "n", "d">>

\* "\(a\[b\)c\]": an inline segment and a display segment that overlap
InterleavedMath == <<BS, "(", "a", BS, "[", "b", BS, ")", "c", BS, "]">>

MathInputs == TextsOf(MathFragments, MaxMathFragments) \cup {ExampleMath, InterleavedMath}

(***************************************************************************)
(* The state machine: a text is given, and the entry points are applied.     *)
(***************************************************************************)
NoNotebook == [cells |-> <<>>, error |-> FALSE]

InitWith(inputs) ==
    /\ input \in inputs
    /\ text = input
    /\ sections = <<>>
    /\ notebook = NoNotebook
    /\ count = 0
    /\ pc = "input"

Init == InitWith(StructureInputs)
InitBackslashes == InitWith(BackslashInputs)
InitMacros == InitWith(MacroInputs)
InitDelimiters == InitWith(DelimiterInputs)
InitMath == InitWith(MathInputs)

\* app.py line 209
TransformLatexEquations ==
    /\ pc = "input"
    /\ text' = transform_latex_equations(text)
    /\ pc' = "transformed"
    /\ UNCHANGED <<input, sections, notebook, count>>

\* app.py line 210
PerformSubstitutions ==
    /\ pc = "transformed"
    /\ text' = perform_substitutions(text)
    /\ pc' = "substituted"
    /\ UNCHANGED <<input, sections, notebook, count>>

\* app.py line 211, or the function called on the text as given
ParseInputToNotebook ==
    /\ pc \in {"input", "substituted"}
    /\ sections' = split_sections(text)
    /\ notebook' = parse_input_to_notebook(text)
    /\ pc' = "parsed"
    /\ UNCHANGED <<input, text, count>>

\* app.py line 212
EscapeLatexDelimitersInNotebook ==
    /\ pc = "parsed"
    /\ ~notebook.error
    /\ notebook' = escape_latex_delimiters_in_notebook(notebook)
    /\ pc' = "escaped"
    /\ UNCHANGED <<input, text, sections, count>>

\* app_dollar.py line 92
ConvertLatexDelimiters ==
    /\ pc = "input"
    /\ LET r == convert_latex_delimiters(text) IN
        /\ text' = r.text
        /\ count' = r.count
    /\ pc' = "converted"
    /\ UNCHANGED <<input, sections, notebook>>

Next ==
    \/ TransformLatexEquations
    \/ PerformSubstitutions
    \/ ParseInputToNotebook
    \/ EscapeLatexDelimitersInNotebook
    \/ ConvertLatexDelimiters

Spec == Init /\ [][Next]_vars
SpecBackslashes == InitBackslashes /\ [][Next]_vars
SpecMacros == InitMacros /\ [][Next]_vars
SpecDelimiters == InitDelimiters /\ [][Next]_vars
SpecMath == InitMath /\ [][Next]_vars

(***************************************************************************)
(* Properties                                                               *)
(***************************************************************************)
Parsed == pc = "parsed" /\ ~notebook.error

\* the cells as appended by lines 61-127, before the cleanup of lines 130-140
Emitted == assemble_cells(text).cells

\* the number of section pairs of the split list
Pairs == (Len(sections) - 1) \div 2

\* the label and the content of the p-th pair of the split list
LabelOf(p) == sections[2 * p]
ContentOf(p) == sections[2 * p + 1]

\* C1: all Blocks of the returned Document have pairwise distinct ids.
C1_UniqueBlockIds ==
    Parsed =>
        \A j, k \in DOMAIN notebook.cells :
            j # k => notebook.cells[j].id # notebook.cells[k].id

\* the title line of the atomic Block of the example
C2_AtomicTitle == Bold \o <<"[", "a", "t", "o", "m", "i", "c", "_", "a", "]">> \o Bold \o <<NL, NL>>

\* C2: for "\section*{[SECTION_01]}\nHello\n\section*{[atomic_a]}\nfoo\nbar\n\end{document}"
\* the Document is the metadata Block, the divider of [SECTION_01], the section
\* Block titled **[SECTION_01]**, an atomic Block titled **[atomic_a]** whose body
\* has a hard line break (two spaces, newline) for every newline, and the
\* trailing divider.
C2_ExampleDocumentBlocks ==
    (Parsed /\ text = ExampleDocument) =>
        LET cells == notebook.cells IN
        /\ Len(cells) = 5
        /\ cells[1] = Cell(MetadataText, MetadataId)
        /\ cells[2] = Cell(Rule, SeparatorBeforePrefix
                                 \o <<"[", "S", "E", "C", "T", "I", "O", "N", "_", "0", "1", "]">>)
        /\ StartsAt(cells[3].source[1], 1,
                    Bold \o <<"[", "S", "E", "C", "T", "I", "O", "N", "_", "0", "1", "]">> \o Bold)
        /\ StartsAt(cells[4].source[1], 1, C2_AtomicTitle)
        /\ strip(SubSeq(cells[4].source[1], Len(C2_AtomicTitle) + 1, Len(cells[4].source[1])))
           = <<"f", "o", "o", " ", " ", NL, "b", "a", "r">>
        /\ cells[5] = Cell(Rule, FinalSeparatorId)

\* C3: \begin{env} X \end{env} becomes $$ X $$ and is counted, for every name
\* of display_envs, the starred names included.
C3_EveryEnvironmentConverted ==
    pc = "converted" =>
        \A k \in DOMAIN display_envs :
            input = Environment(display_envs[k]) =>
                /\ text = <<"$", "$", " ", "X", " ", "$", "$">>
                /\ count = 1

\* C4 as claimed: escape_latex_delimiters_in_notebook changes nothing.
C4_GuardIsNoOp ==
    pc = "escaped" => notebook = parse_input_to_notebook(text)

\* the indices of t where one of \( \) \[ \] begins
DelimiterPositions(t) ==
    {i \in 1..(Len(t) - 1) : t[i] = BS /\ t[i + 1] \in {"(", ")", "[", "]"}}

\* after is before with one more backslash put before each of \( \) \[ \]
OneBackslashAdded(before, after) ==
    LET P == DelimiterPositions(before) IN
    /\ Len(after) = Len(before) + Cardinality(P)
    /\ \A i \in 1..Len(before) :
           after[i + Cardinality({p \in P : p <= i})] = before[i]
    /\ \A p \in P : after[p + Cardinality({q \in P : q < p})] = BS

\* C4 as amended: escape_latex_delimiters_in_notebook puts exactly one more
\* backslash before every \( \) \[ \] of each source line and changes nothing
\* else; no Block is added, removed or reordered.
C4_GuardAddsOneBackslash ==
    pc = "escaped" =>
        LET before == parse_input_to_notebook(text).cells
            after == notebook.cells
        IN /\ Len(after) = Len(before)
           /\ \A k \in DOMAIN before :
                /\ after[k].id = before[k].id
                /\ after[k].cell_type = before[k].cell_type
                /\ Len(after[k].source) = Len(before[k].source)
                /\ OneBackslashAdded(before[k].source[1], after[k].source[1])

C4_Witness ==
    /\ pc = "escaped"
    /\ input = NoteMarker \o <<BS, "(", "x", BS, ")">>
    /\ notebook.cells[2].source[1]
       = Bold \o <<"[", "n", "o", "t", "e", "]">> \o Bold \o <<NL, NL>>
         \o <<BS, BS, "(", "x", BS, BS, ")">>

\* C5 as claimed: the final cleanup pass, applied again to the text of every
\* Block of the returned Document, changes nothing.
C5_CleanupIdempotent ==
    Parsed => cleanup_cells(notebook.cells) = notebook.cells

\* t holds three backslashes in a row
LongBackslashRun(t) == Find(t, <<BS, BS, BS>>, 1) # 0

\* C5 as amended: for every Block text without a run of three or more
\* backslashes, applying the cleanup pass a second time gives what applying it
\* once gave.
C5_CleanupIdempotentOnShortRuns ==
    Parsed =>
        LET emitted == Emitted IN
        \A k \in DOMAIN notebook.cells :
            ~LongBackslashRun(emitted[k].source[1]) =>
                /\ notebook.cells[k].source[1] = cleanup_text(emitted[k].source[1])
                /\ cleanup_text(notebook.cells[k].source[1]) = notebook.cells[k].source[1]

C5_Witness ==
    /\ Parsed
    /\ LET emitted == Emitted IN
       \E k \in DOMAIN notebook.cells :
           /\ ~LongBackslashRun(emitted[k].source[1])
           /\ Find(emitted[k].source[1], <<BS, BS>>, 1) # 0
           /\ notebook.cells[k].source[1] # emitted[k].source[1]

EscapedMacros == {frac, right, rfloor, begin, theta}

\* One pass over s from index i: a doubled backslash becomes \newline, a
\* backslash before frac, right, rfloor, begin or theta is doubled, \_ becomes _.
RECURSIVE RewrittenOnce(_, _)
RewrittenOnce(s, i) ==
    IF i > Len(s) THEN <<>>
    ELSE IF StartsAt(s, i, <<BS, BS>>) THEN <<BS>> \o newline \o RewrittenOnce(s, i + 2)
    ELSE IF \E m \in EscapedMacros : StartsAt(s, i, <<BS>> \o m)
    THEN LET m == CHOOSE m \in EscapedMacros : StartsAt(s, i, <<BS>> \o m)
         IN <<BS, BS>> \o m \o RewrittenOnce(s, i + 1 + Len(m))
    ELSE IF StartsAt(s, i, <<BS, "_">>) THEN <<"_">> \o RewrittenOnce(s, i + 2)
    ELSE <<s[i]>> \o RewrittenOnce(s, i + 1)

\* "\\frac{1}{2} \newline \\theta"
ExampleMacrosEscaped ==
    <<BS, BS>> \o frac \o <<"{", "1", "}", "{", "2", "}", " ", BS>> \o newline
    \o <<" ", BS, BS>> \o theta

\* C6: the seven substitutions run in the listed order, each on the result of
\* the one before, and none matches again what an earlier one wrote: the result
\* is the input with each doubled backslash, each escaped macro and each \_
\* rewritten once, and \frac{1}{2} \\ \theta gives \\frac{1}{2} \newline \\theta.
C6_SubstitutionsInOrder ==
    pc = "substituted" =>
        /\ text = RewrittenOnce(input, 1)
        /\ input = ExampleMacros => text = ExampleMacrosEscaped

C6_Witness ==
    /\ pc = "substituted"
    /\ input = ExampleMacros
    /\ text = ExampleMacrosEscaped

\* the result of the k-th pass alone on the text t
PassAlone(k, t) ==
    subn_from(t, 1, compile(passes[k].open), compile(passes[k].close),
              passes[k].dotall, passes[k].delim)

\* the text after the first k passes, each run on the result of the one before
RECURSIVE TextAfter(_)
TextAfter(k) == IF k = 0 THEN input ELSE PassAlone(k, TextAfter(k - 1)).text

\* the number of matches replaced by the first k passes
RECURSIVE MatchesUpTo(_)
MatchesUpTo(k) ==
    IF k = 0 THEN 0 ELSE MatchesUpTo(k - 1) + PassAlone(k, TextAfter(k - 1)).count

\* "Text $$ x+y $$ more $a$ end"
ExampleMathConverted ==
    <<"T", "e", "x", "t", " ", "$", "$", " ", "x", "+", "y", " ", "$", "$", " ",
      "m", "o", "r", "e", " ", "$", "a", "$", " ", "e", "n", "d">>

\* "\(a$$b\)c$$" read by the inline pass: "$a$$b$c$$"
InterleavedMathConverted == <<"$", "a", "$", "$", "b", "$", "c", "$", "$">>

\* C7: the passes run in the order display, environments, inline, ensuremath,
\* each on the result of the passes before; the count is the number of matches
\* replaced over all passes; "Text \[ x+y \] more \(a\) end" gives
\* "Text $$ x+y $$ more $a$ end" and 2.
C7_PassesInOrderAndCounted ==
    pc = "converted" =>
        /\ text = TextAfter(Len(passes))
        /\ count = MatchesUpTo(Len(passes))
        /\ (count = 0) = (text = input)
        /\ input = ExampleMath => (text = ExampleMathConverted /\ count = 2)
        /\ input = InterleavedMath => (text = InterleavedMathConverted /\ count = 2)

C7_Witness ==
    /\ pc = "converted"
    /\ input = ExampleMath
    /\ text = ExampleMathConverted
    /\ count = 2

\* C8: the list of the section split has an even length without its preamble,
\* so every label has a content and the loop never reads past the end; the same
\* for the atomic split of every content.
C8_SplitInPairs ==
    pc = "parsed" =>
        /\ (Len(sections) - 1) % 2 = 0
        /\ ~notebook.error
        /\ \A p \in 1..Pairs :
               (Len(re_split(remove_end_document(strip(ContentOf(p))), atomic_pattern)) - 1) % 2 = 0

C8_Witness ==
    /\ pc = "parsed"
    /\ Pairs >= 2
    /\ ContentOf(Pairs) = <<>>

\* the upper-cased label holds [SECTION_<digits>]
HoldsNumberedSection(u) ==
    \E a \in 1..Len(u) : \E d \in 1..Len(u) :
        /\ StartsAt(u, a, SECTION_)
        /\ a + Len(SECTION_) + d <= Len(u)
        /\ \A k \in 0..(d - 1) : u[a + Len(SECTION_) + k] \in DigitSet
        /\ u[a + Len(SECTION_) + d] = "]"

\* the upper-cased label holds PROMPT or RESPONSE as a whole word
HoldsPromptOrResponse(u) ==
    \E a \in 1..Len(u) : \E w \in {PROMPT, RESPONSE} :
        /\ StartsAt(u, a, w)
        /\ a > 1 => u[a - 1] \notin WordChars
        /\ a + Len(w) <= Len(u) => u[a + Len(w)] \notin WordChars

\* the Blocks claimed for the p-th pair: its divider, if any, and its content Block
BlocksOfPair(p) ==
    LET i == 2 * p - 1
        label == LabelOf(p)
        divider ==
            IF HoldsNumberedSection(upper(label))
            THEN <<Cell(Rule, SeparatorBeforePrefix \o label)>>
            ELSE IF HoldsPromptOrResponse(upper(label))
            THEN <<Cell(Rule, SeparatorPrefix \o str(i))>>
            ELSE <<>>
    IN divider \o <<Cell(Bold \o label \o Bold \o <<NL, NL>> \o strip(ContentOf(p)),
                         SectionPrefix \o str(i))>>

RECURSIVE BlocksOfPairs(_)
BlocksOfPairs(n) == IF n = 0 THEN <<>> ELSE BlocksOfPairs(n - 1) \o BlocksOfPair(n)

\* C9: every label/content pair gives exactly one content Block (**label**,
\* blank line, content; id section_<i>), after one divider with id
\* separator_before_<label> for a [SECTION_<digits>] label, else after one
\* divider with id separator_<i> for a PROMPT or RESPONSE label, else after no
\* divider; the returned Blocks are these, in this order, with these ids.
C9_BlocksOfEveryPair ==
    Parsed =>
        LET claimed == <<Cell(MetadataText, MetadataId)>> \o BlocksOfPairs(Pairs)
                       \o <<Cell(Rule, FinalSeparatorId)>>
        IN /\ Emitted = claimed
           /\ Len(notebook.cells) = Len(claimed)
           /\ \A k \in DOMAIN claimed :
                /\ notebook.cells[k].id = claimed[k].id
                /\ Find(claimed[k].source[1], <<BS, BS>>, 1) = 0
                       => notebook.cells[k].source = claimed[k].source

C9_Witness ==
    /\ Parsed
    /\ text = NumberedMarker \o PromptMarker \o AtomicMarker
    /\ Len(notebook.cells) = 7

\* C10: every match of the atomic pattern is a match of the section pattern, no
\* content of a section holds an atomic marker, the atomic split of a content
\* is a single part, and no Block carries an atomic id <atomic label>_<i>_<j>.
C10_NoAtomicBlock ==
    Parsed =>
        LET t == remove_end_document(text) IN
        /\ \A i \in 1..Len(t) :
               match_marker(t, i, atomic_pattern) # 0
                   => match_marker(t, i, section_pattern) = match_marker(t, i, atomic_pattern)
        /\ \A p \in 1..Pairs :
               /\ \A i \in 1..Len(ContentOf(p)) : match_marker(ContentOf(p), i, atomic_pattern) = 0
               /\ Len(re_split(remove_end_document(strip(ContentOf(p))), atomic_pattern)) = 1
        /\ \A k \in DOMAIN notebook.cells : notebook.cells[k].id[1] # "["
        /\ Len(notebook.cells) <= 2 + 2 * Pairs

C10_Witness ==
    /\ Parsed
    /\ text = ExampleDocument
    /\ Len(notebook.cells) = 5

====
